---- MODULE Spec2Model ----
(***************************************************************************)
(* The transactional approval-and-ledger core of the logistics back end:   *)
(* the approval workflow (approval_service.go), order / expense request    *)
(* creation (inventory_service, expense_service), the invoice-number       *)
(* allocators (approval_service.go, invoice_service.go) and the audit      *)
(* trail, on top of a PostgreSQL store used at its default isolation       *)
(* level (READ COMMITTED, gorm's db.Transaction without options).          *)
(*                                                                         *)
(* The store is modelled as the committed tables (db) plus, per request    *)
(* worker, the uncommitted write set of its open transaction (tx[w]).      *)
(* A row updated, or selected FOR UPDATE, by an open transaction is locked *)
(* until that transaction ends; a plain SELECT never blocks and reads the  *)
(* committed row; an UPDATE ... WHERE id = ? that had to wait proceeds on  *)
(* the row as committed by the transaction it waited for.                  *)
(***************************************************************************)
EXTENDS Integers, Sequences, FiniteSets, TLC

VARIABLES db, tx, today, last, pre, seqMode, rt, hub, alloc, ws

vars == <<db, tx, today, last, pre, seqMode, rt, hub, alloc, ws>>

\* ---------------------------------------------------------------- bounds
Workers == {"w1", "w2"}
Requesters == {"u1"}
Products == {"p1", "p2"}
Clients == {"c1", "c2"}
MaxItems == 2
MaxQty == 1
MaxReqs == 2
MaxManual == 1
MaxDay == 2
MaxWrites == 3
MaxDepth == 2
MaxRules == 2
MaxDate == 2
MaxOrders == 2
MaxCount == 100000
MaxBuf == 2
MaxPending == 2

\* ------------------------------------------------------- program constants
ApprovalPending == "PENDING"
ApprovalApproved == "APPROVED"
ApprovalRejected == "REJECTED"

ApprovalReqTypeCreateOrder == "CREATE_ORDER"
ApprovalReqTypeCreateExpense == "CREATE_EXPENSE"
ApprovalReqTypeCreateProduct == "CREATE_PRODUCT"

OrderTypeImport == "IMPORT"
OrderTypeExport == "EXPORT"

OrderStatusPendingApproval == "PENDING_APPROVAL"
OrderStatusCompleted == "COMPLETED"
OrderStatusRejected == "REJECTED"

TxTypeIn == "IN"
TxTypeOut == "OUT"

RefTypeOrderImport == "ORDER_IMPORT"
RefTypeOrderExport == "ORDER_EXPORT"
RefTypeExpense == "EXPENSE"

ActionCreateOrderIn == "CREATE_ORDER_IMPORT"
ActionCreateOrderOut == "CREATE_ORDER_EXPORT"
ActionCreateExpense == "CREATE_EXPENSE"
ActionUpdateProduct == "UPDATE_PRODUCT"
ActionCreateTaxRule == "CREATE_TAX_RULE"
ActionUpdateTaxRule == "UPDATE_TAX_RULE"
ActionDeleteTaxRule == "DELETE_TAX_RULE"
TaxTypeVATInland == "VAT_INLAND"
ActionCreateApprovalRequest == "CREATE_APPROVAL_REQUEST"
ActionApproveRequest == "APPROVE_REQUEST"
ActionRejectRequest == "REJECT_REQUEST"
ActionCreateInvoiceFromApproval == "CREATE_INVOICE_FROM_APPROVAL"

\* ------------------------------------------------------------------ inputs
\* OrderItemRequest: product_id and quantity (binding gt=0)
OrderItemRequest == [product : Products, quantity : 1..MaxQty]

\* CreateOrderRequest.Items (binding min=1)
ItemLists == UNION {[1..n -> OrderItemRequest] : n \in 1..MaxItems}

\* The item lists about one product, and those that list two products (the
\* orders that take the two product locks in either order).
OneProductLists == {l \in ItemLists : \A k \in 1..Len(l) : l[k].product = "p1"}

TwoProductLists ==
    {l \in ItemLists : Len(l) = 2 /\ l[1].product # l[2].product}

OrderTypes == {OrderTypeImport, OrderTypeExport}

\* The amounts CreateExpense stores with an expense: converted_amount_usd,
\* vat_amount and fct_amount.
ExpenseInputs == {[converted |-> 10, vat |-> 2, fct |-> 1]}

\* TaxRule.EffectiveTo is nullable: a rule with no end date.
NoEnd == 0

\* time.Date(9999, 12, 31, ...), the date checkOverlap compares with when
\* the new rule has no end date: later than every date a request carries.
FarFuture == MaxDate + 1

\* CreateTaxRuleRequest / UpdateTaxRuleRequest: tax_type, effective_from and
\* effective_to (empty for none). The dates are not compared with each
\* other by parseTaxRuleFields.
TaxRuleRequests ==
    [type : {TaxTypeVATInland}, from : 1..MaxDate,
     to : (1..MaxDate) \cup {NoEnd}]

\* CreateApprovalRequestDTO.RequestType
\* (binding oneof=CREATE_ORDER CREATE_PRODUCT CREATE_EXPENSE)
RequestTypes ==
    {ApprovalReqTypeCreateOrder, ApprovalReqTypeCreateProduct,
     ApprovalReqTypeCreateExpense}

\* The request_type values a caller may pass to CreateApprovalRequest: the
\* three of the DTO's oneof tag, and one that is none of them (the tag is
\* read by gin's binding only, which no handler applies to this DTO).
RequestTypeInputs == RequestTypes \cup {"CREATE_OTHER"}

\* The reference_id strings a caller may pass: one uuid.Parse rejects, and
\* the ids of rows.
ReferenceInputs ==
    {[ok |-> FALSE, id |-> 0]} \cup {[ok |-> TRUE, id |-> n] : n \in 1..MaxReqs}

\* ------------------------------------------------------------ transactions
\* A worker with no request in progress: no open transaction, no write set.
IdleTx ==
    [pc |-> "idle", op |-> "none", r |-> 0, approval |-> <<>>,
     i |-> 0, wreq |-> <<>>, wstock |-> <<>>, worder |-> <<>>,
     wledger |-> <<>>, winv |-> <<>>, waudit |-> {}, adv |-> 0, no |-> <<>>,
     ref |-> 0, product |-> <<>>, rule |-> <<>>, invoice |-> <<>>]

\* The outcome of the call that has just returned, kept in a sequential
\* history until the next call starts: the operation, its worker (the authenticated user), the request it
\* was about, the result, and the statement and line item it stopped at.
NoCall == [op |-> "none", w |-> "none", r |-> 0, res |-> "none", at |-> "none", i |-> 0]

Done(op, w, r, res, at, i) ==
    IF seqMode THEN [op |-> op, w |-> w, r |-> r, res |-> res, at |-> at, i |-> i]
               ELSE NoCall

EmptyDB ==
    [stock |-> [p \in Products |-> 0], orders |-> <<>>, expenses |-> <<>>,
     reqs |-> <<>>, ledger |-> <<>>, invoices |-> <<>>, audit |-> {},
     rules |-> <<>>]

AllIdle == \A w \in Workers : tx[w].pc = "idle"

\* A request worker may start a call: it is idle and, in a sequential
\* history, so is every other worker.
MayStart(w) == tx[w].pc = "idle" /\ (seqMode => AllIdle)

\* ------------------------------------------------------------------- store
\* The view one worker has of the store: the committed tables and its own
\* open transaction. Every statement issued through the gorm handle tx goes
\* to the write set; it reaches db when the transaction commits.
View(w) == [db |-> db, t |-> tx[w]]

\* The status write issued on the root connection instead of the transaction.
TxSaveApprovalDirect(s, row) == [s EXCEPT !.db.reqs[s.t.r] = row]

\* tx.Save(&approval): UPDATE approval_requests SET <all columns> WHERE id = ?
TxSaveApproval(s, row) == [s EXCEPT !.t.wreq = <<row>>]

\* The stock write issued on the root connection instead of the transaction.
TxSetStockDirect(s, p, v) == [s EXCEPT !.db.stock[p] = v]

\* tx.Model(&product).Update("current_stock", stockAfter)
TxSetStock(s, p, v) ==
    [s EXCEPT !.t.wstock =
        [q \in (DOMAIN s.t.wstock) \cup {p} |-> IF q = p THEN v ELSE s.t.wstock[q]]]

\* tx.Model(&order).Update("status", ...)
\* The order status update left out.
TxSetOrderStatusSkipped(s, o, status) == s

\* tx.Model(&order).Update("status", status)
TxSetOrderStatus(s, o, status) ==
    [s EXCEPT !.t.worder = <<[order |-> o, status |-> status]>>]

\* The ledger row inserted twice.
TxInsertLedgerTwice(s, row) == [s EXCEPT !.t.wledger = Append(Append(@, row), row)]

\* tx.Create(&invTx)
TxInsertLedger(s, row) == [s EXCEPT !.t.wledger = Append(@, row)]

\* tx.Create(&invoice)
TxInsertInvoice(s, row) == [s EXCEPT !.t.winv = Append(@, row)]

\* The audit row written as a side channel, outside the unit of work.
TxLogAuditDirect(s, row) == [s EXCEPT !.db.audit = @ \cup {row}]

\* tx.Create(&audit)
TxLogAudit(s, row) == [s EXCEPT !.t.waudit = @ \cup {row}]

\* A read of the product row that does not see the transaction's own writes.
ReadStockCommitted(s, p) == s.db.stock[p]

\* SELECT ... FOR UPDATE of a product row: the committed row, or the row as
\* this transaction has already written it.
ReadStock(s, p) ==
    IF p \in DOMAIN s.t.wstock THEN s.t.wstock[p] ELSE s.db.stock[p]

\* A commit that writes the ledger rows of the transaction over the table.
CommitRewritingLedger(s) ==
    LET t == s.t
        d == s.db
    IN  [d EXCEPT
            !.reqs = IF t.wreq = <<>> THEN @ ELSE [@ EXCEPT ![t.r] = t.wreq[1]],
            !.stock = [p \in Products |->
                          IF p \in DOMAIN t.wstock THEN t.wstock[p] ELSE d.stock[p]],
            !.orders = IF t.worder = <<>> THEN @
                       ELSE [@ EXCEPT ![t.worder[1].order].status = t.worder[1].status],
            !.ledger = t.wledger,
            !.invoices = @ \o t.winv,
            !.audit = @ \cup t.waudit]

\* COMMIT: the write set becomes the committed state, all at once.
Commit(s) ==
    LET t == s.t
        d == s.db
    IN  [d EXCEPT
            !.reqs = IF t.wreq = <<>> THEN @ ELSE [@ EXCEPT ![t.r] = t.wreq[1]],
            !.stock = [p \in Products |->
                          IF p \in DOMAIN t.wstock THEN t.wstock[p] ELSE d.stock[p]],
            !.orders = IF t.worder = <<>> THEN @
                       ELSE [@ EXCEPT ![t.worder[1].order].status = t.worder[1].status],
            !.ledger = @ \o t.wledger,
            !.invoices = @ \o t.winv,
            !.audit = @ \cup t.waudit]

\* One INSERT of a unit of work that takes no row lock: GetDB(ctx).Create on
\* the table, as the repositories issue it.
Insert(table, row) == [table |-> table, row |-> row]

ApplyInsert(d, wr) ==
    IF wr.table = "orders" THEN [d EXCEPT !.orders = Append(@, wr.row)]
    ELSE IF wr.table = "expenses" THEN [d EXCEPT !.expenses = Append(@, wr.row)]
    ELSE IF wr.table = "reqs" THEN [d EXCEPT !.reqs = Append(@, wr.row)]
    ELSE [d EXCEPT !.audit = @ \cup {wr.row}]

\* The tables after the first n statements of a unit of work.
RECURSIVE ApplyInserts(_, _, _)
ApplyInserts(d, writes, n) ==
    IF n = 0 THEN d ELSE ApplyInsert(ApplyInserts(d, writes, n - 1), writes[n])

\* A unit of work whose statements before the failing one stay committed.
UnitOfWorkKeepingWrites(d, writes, failAt) ==
    IF failAt = 0 THEN ApplyInserts(d, writes, Len(writes))
    ELSE ApplyInserts(d, writes, failAt - 1)

\* txManager.RunInTx around a sequence of inserts: statement failAt returns
\* an error (0: none does), fn returns it and the transaction is rolled
\* back; otherwise fn returns nil and every insert is committed.
UnitOfWork(d, writes, failAt) ==
    IF failAt = 0 THEN ApplyInserts(d, writes, Len(writes)) ELSE d

\* The result an operation returns for its unit of work.
UnitResult(failAt) == IF failAt = 0 THEN "ok" ELSE "failed"

\* The statement a unit of work stopped at: an audit insert, another
\* insert, or none.
UnitAt(writes, failAt) ==
    IF failAt = 0 THEN "idle"
    ELSE IF writes[failAt].table = "audit" THEN "audit" ELSE "insert"

\* ------------------------------------------------------------------- locks
\* Row lock of approval_requests row r held by another open transaction.
ReqLockedByOther(w, r) ==
    \E v \in Workers \ {w} : tx[v].wreq # <<>> /\ tx[v].r = r

\* Row lock of a products row (clause.Locking{Strength: "UPDATE"}).
ProductLockedByOther(w, p) ==
    \E v \in Workers \ {w} : p \in DOMAIN tx[v].wstock

\* Row lock of an orders row, taken by the status UPDATE.
OrderLockedByOther(w, o) ==
    \E v \in Workers \ {w} : tx[v].worder # <<>> /\ tx[v].worder[1].order = o

\* pg_advisory_xact_lock(hashtext(prefix)): held until the transaction ends.
AdvLockedByOther(w, day) ==
    \E v \in Workers \ {w} : tx[v].adv = day

\* uniqueIndex on invoices.invoice_no: an insert waits for an uncommitted
\* row with the same number, and fails against a committed one.
InvoiceNoPendingByOther(w, no) ==
    \E v \in Workers \ {w} : \E k \in 1..Len(tx[v].winv) : tx[v].winv[k].no = no

\* The invoice_no column without its unique index.
InvoiceNoTakenNever(d, no) == FALSE

\* uniqueIndex on invoices.invoice_no against a committed row.
InvoiceNoTaken(d, no) ==
    \E k \in 1..Len(d.invoices) : d.invoices[k].no = no

\* ------------------------------------------------------- invoice numbering
\* Count of invoices WHERE invoice_no LIKE prefix%
CountByPrefix(invoices, day) ==
    Cardinality({k \in 1..Len(invoices) : invoices[k].no.day = day})

\* The allocator formatting the date after the one it counted for (the date
\* taken in another time zone).
generateInvoiceNoNextDay(day, count) == [day |-> day + 1, seq |-> count + 1]

\* fmt.Sprintf("%s%05d", prefix, count+1) with prefix = "INV-" + today + "-"
generateInvoiceNo(day, count) == [day |-> day, seq |-> count + 1]

\* The width of the verb %05d, and of the layout "20060102".
SeqWidth == 5
DateWidth == 8

\* The decimal digits of n >= 0, most significant first.
RECURSIVE Digits(_)
Digits(n) == IF n < 10 THEN <<n>> ELSE Append(Digits(n \div 10), n % 10)

RECURSIVE Zeros(_)
Zeros(k) == IF k <= 0 THEN <<>> ELSE <<0>> \o Zeros(k - 1)

\* The verb %0<width>d: the digits of n, with zeros put before them while
\* there are fewer than width; a longer number is printed whole.
PadZero(n, width) == Zeros(width - Len(Digits(n))) \o Digits(n)

\* fmt.Sprintf("%s%05d", prefix, count+1) with prefix = "INV-" + today + "-",
\* as the sequence of its parts: "INV-", the digits of the date (the day
\* number stands for the calendar date), "-", the digits of the number.
InvoiceNoString(no) ==
    <<"INV-">> \o PadZero(no.day, DateWidth) \o <<"-">> \o PadZero(no.seq, SeqWidth)

\* ---------------------------------------------------------- request checks
\* Order creation that also refuses an export the stock cannot cover.
ValidateItemsAndStock(d, type, items) ==
    \A k \in 1..Len(items) :
        /\ items[k].product \in DOMAIN d.stock
        /\ type = OrderTypeExport => d.stock[items[k].product] >= items[k].quantity

\* CreateOrder step 1: productRepo.FindByID for each item; nothing else about
\* the product (its stock in particular) is looked at.
ValidateItems(d, type, items) ==
    \A k \in 1..Len(items) : items[k].product \in DOMAIN d.stock

\* -------------------------------------------------------- approval checks
\* A status check that only refuses a request that is already approved.
IsPendingOrRejected(status) == status # ApprovalApproved

\* approval.Status != model.ApprovalPending  =>  "already <status>"
IsPending(status) == status = ApprovalPending

\* The export capacity check left out.
InsufficientStockUnchecked(type, stock, quantity) == FALSE

\* order.Type == EXPORT && product.CurrentStock < item.Quantity
InsufficientStock(type, stock, quantity) ==
    type = OrderTypeExport /\ stock < quantity

\* A dispatch that runs the expense side effects for a product request.
executeApprovalInvoicingProducts(type) ==
    IF type = ApprovalReqTypeCreateOrder THEN "item" ELSE "invno"

\* executeApproval: the switch on approval.RequestType, as the statement
\* the transaction goes on with: the item loop of executeOrderApproval, the
\* invoice number of executeExpenseApproval, or for a product nothing (the
\* approval audit row is next).
executeApproval(type) ==
    IF type = ApprovalReqTypeCreateOrder THEN "item"
    ELSE IF type = ApprovalReqTypeCreateExpense THEN "invno"
    ELSE IF type = ApprovalReqTypeCreateProduct THEN "audit"
    ELSE "unknown_type"

\* Invoice amounts of an expense with the FCT amount left out of the tax.
ExpenseInvoiceAmountsVatOnly(expense) ==
    [subtotal |-> expense.converted,
     tax |-> expense.vat,
     total |-> expense.converted + expense.vat]

\* executeExpenseApproval: subtotal = ConvertedAmountUSD,
\* taxAmount = VATAmount + FCTAmount, totalAmount = subtotal + taxAmount.
ExpenseInvoiceAmounts(expense) ==
    [subtotal |-> expense.converted,
     tax |-> expense.vat + expense.fct,
     total |-> expense.converted + (expense.vat + expense.fct)]

\* The amounts of the invoices of orders and of CreateInvoice (unit prices,
\* tax rules and side fees) are not modelled.
NoAmounts == [subtotal |-> 0, tax |-> 0, total |-> 0]

\* ----------------------------------------------------------------- actions
\* When a call starts in a sequential history, the committed state it
\* starts from is remembered.
StartCall == pre' = IF seqMode THEN db ELSE pre

\* A transaction that ends with an error and keeps what it had written.
RollbackKeepingWrites(w, s, res) ==
    /\ db' = Commit(s)
    /\ tx' = [tx EXCEPT ![w] = IdleTx]
    /\ last' = Done(s.t.op, w, s.t.r, res, s.t.pc, s.t.i)

\* The transaction of worker w ends with an error: ROLLBACK, the write set
\* is dropped and the locks are released.
Rollback(w, s, res) ==
    /\ db' = s.db
    /\ tx' = [tx EXCEPT ![w] = IdleTx]
    /\ last' = Done(s.t.op, w, s.t.r, res, s.t.pc, s.t.i)

\* The statement of worker w went through: the transaction goes on at pc.
Proceed(w, s, pc) ==
    /\ db' = s.db
    /\ tx' = [tx EXCEPT ![w] = [s.t EXCEPT !.pc = pc]]
    /\ last' = NoCall

\* fn returned nil: COMMIT.
Finish(w, s) ==
    /\ db' = Commit(s)
    /\ tx' = [tx EXCEPT ![w] = IdleTx]
    /\ last' = Done(s.t.op, w, s.t.r, "ok", s.t.pc, s.t.i)

\* inventoryService.CreateOrder: one unit of work that inserts the order in
\* PENDING_APPROVAL with its items, its audit row, the PENDING
\* ApprovalRequest and that request's audit row. No stock is read or changed.
CreateOrder(w, type, items, failAt) ==
    /\ seqMode => AllIdle
    /\ Len(db.reqs) < MaxReqs
    /\ LET o == Len(db.orders) + 1
           r == Len(db.reqs) + 1
           order == [type |-> type, items |-> items,
                     status |-> OrderStatusPendingApproval]
           req == [type |-> ApprovalReqTypeCreateOrder, ref |-> o,
                   status |-> ApprovalPending, by |-> "none",
                   reason |-> "none"]
           a1 == [action |-> IF type = OrderTypeExport THEN ActionCreateOrderOut
                                                       ELSE ActionCreateOrderIn,
                  entity |-> [kind |-> "order", id |-> o], user |-> w]
           a2 == [action |-> ActionCreateApprovalRequest,
                  entity |-> [kind |-> "approval", id |-> r], user |-> w]
       IN  IF ~ValidateItems(db, type, items)
           THEN /\ db' = db
                /\ last' = Done("CreateOrder", w, r, "product_not_found", "idle", 0)
           ELSE LET writes == <<Insert("orders", order), Insert("audit", a1),
                                Insert("reqs", req), Insert("audit", a2)>>
                IN  /\ db' = UnitOfWork(db, writes, failAt)
                    /\ last' = Done("CreateOrder", w, r, UnitResult(failAt),
                                    UnitAt(writes, failAt), failAt)
    /\ StartCall
    /\ UNCHANGED <<tx, today, seqMode, rt, hub, alloc, ws>>

\* expenseService.CreateExpense: one unit of work that inserts the expense,
\* its audit row, the PENDING ApprovalRequest and that request's audit row.
CreateExpense(w, amounts, failAt) ==
    /\ seqMode => AllIdle
    /\ Len(db.reqs) < MaxReqs
    /\ LET e == Len(db.expenses) + 1
           r == Len(db.reqs) + 1
           req == [type |-> ApprovalReqTypeCreateExpense, ref |-> e,
                   status |-> ApprovalPending, by |-> "none",
                   reason |-> "none"]
           a1 == [action |-> ActionCreateExpense,
                  entity |-> [kind |-> "expense", id |-> e], user |-> w]
           a2 == [action |-> ActionCreateApprovalRequest,
                  entity |-> [kind |-> "approval", id |-> r], user |-> w]
           writes == <<Insert("expenses", amounts), Insert("audit", a1),
                       Insert("reqs", req), Insert("audit", a2)>>
       IN  /\ db' = UnitOfWork(db, writes, failAt)
           /\ last' = Done("CreateExpense", w, r, UnitResult(failAt),
                           UnitAt(writes, failAt), failAt)
    /\ StartCall
    /\ UNCHANGED <<tx, today, seqMode, rt, hub, alloc, ws>>

\* approvalService.CreateApprovalRequest: one transaction that inserts a
\* PENDING ApprovalRequest of the given type for the given reference and its
\* CREATE_APPROVAL_REQUEST audit row. Neither the referenced row nor the
\* requests that already refer to it are looked at, and req.RequestType is
\* stored as it comes. uuid.Parse(req.ReferenceID) comes first: on its error
\* the call returns before the transaction. The references drawn that
\* parse are rows that exist (products are referred to by their number).
CreateApprovalRequest(w, type, reference, failAt) ==
    /\ seqMode => AllIdle
    /\ Len(db.reqs) < MaxReqs
    /\ reference.ok =>
          reference.id \in 1..(IF type = ApprovalReqTypeCreateOrder THEN Len(db.orders)
                              ELSE IF type = ApprovalReqTypeCreateExpense THEN Len(db.expenses)
                              ELSE Cardinality(Products))
    /\ LET r == Len(db.reqs) + 1
           ref == reference.id
           req == [type |-> type, ref |-> ref,
                   status |-> ApprovalPending, by |-> "none",
                   reason |-> "none"]
           a1 == [action |-> ActionCreateApprovalRequest,
                  entity |-> [kind |-> "approval", id |-> r], user |-> w]
           writes == <<Insert("reqs", req), Insert("audit", a1)>>
       IN  IF ~reference.ok
           THEN /\ db' = db
                /\ last' = Done("CreateApprovalRequest", w, r, "invalid_reference",
                                "parse", 0)
           ELSE /\ db' = UnitOfWork(db, writes, failAt)
                /\ last' = Done("CreateApprovalRequest", w, r, UnitResult(failAt),
                                UnitAt(writes, failAt), failAt)
    /\ StartCall
    /\ UNCHANGED <<tx, today, seqMode, rt, hub, alloc, ws>>

\* ApproveRequest / RejectRequest, first statement of the transaction:
\* tx.First(&approval, "id = ?", id), a plain SELECT that takes no lock,
\* and the status check on the row it returned.
Find(w, op, r) ==
    /\ MayStart(w)
    /\ IF r > Len(db.reqs)
       THEN /\ last' = Done(op, w, r, "not_found", "find", 0)
            /\ tx' = tx
       ELSE IF ~IsPending(db.reqs[r].status)
       THEN /\ last' = Done(op, w, r, "already_resolved", "find", 0)
            /\ tx' = tx
       ELSE /\ last' = NoCall
            /\ tx' = [tx EXCEPT ![w] =
                        [IdleTx EXCEPT !.pc = "save", !.op = op,
                                       !.r = r, !.approval = <<db.reqs[r]>>]]
    /\ StartCall
    /\ UNCHANGED <<db, today, seqMode, rt, hub, alloc, ws>>

ApproveFind(w, r) == Find(w, "approve", r)

RejectFind(w, r) == Find(w, "reject", r)

\* ApproveRequest: approval.Status = APPROVED, ApprovedBy, ApprovedAt, then
\* tx.Save(&approval), which waits for the row lock and then overwrites the
\* row, and the dispatch of executeApproval on the request type.
ApproveSave(w) ==
    /\ tx[w].pc = "save"
    /\ tx[w].op = "approve"
    /\ ~ReqLockedByOther(w, tx[w].r)
    /\ LET a == tx[w].approval[1]
           row == [a EXCEPT !.status = ApprovalApproved, !.by = w]
           s1 == TxSaveApproval(View(w), row)
           s2 == [s1 EXCEPT !.t.approval = <<row>>, !.t.i = 1]
       IN  IF executeApproval(a.type) = "unknown_type"
           THEN Rollback(w, s2, "unknown_type")
           ELSE Proceed(w, s2, executeApproval(a.type))
    /\ UNCHANGED <<today, pre, seqMode, rt, hub, alloc, ws>>

\* executeOrderApproval, one turn of the loop over order.Items: lock the
\* product row FOR UPDATE, validate the export capacity, write the new stock
\* and insert the InventoryTransaction.
ApproveItem(w) ==
    /\ tx[w].pc = "item"
    /\ LET s == View(w)
           o == s.t.approval[1].ref
           order == s.db.orders[o]
           item == order.items[s.t.i]
           p == item.product
           stock == ReadStock(s, p)
           modifier == IF order.type = OrderTypeExport THEN -1 ELSE 1
           quantityChanged == item.quantity * modifier
           stockAfter == stock + quantityChanged
           invTx == [product |-> p, order |-> o,
                     type |-> IF order.type = OrderTypeExport THEN TxTypeOut ELSE TxTypeIn,
                     quantity |-> quantityChanged, after |-> stockAfter]
           s1 == TxInsertLedger(TxSetStock(s, p, stockAfter), invTx)
           s2 == [s1 EXCEPT !.t.i = @ + 1]
       IN  /\ ~ProductLockedByOther(w, p)
           /\ IF InsufficientStock(order.type, stock, item.quantity)
              THEN Rollback(w, s, "insufficient")
              ELSE Proceed(w, s2, IF s.t.i = Len(order.items) THEN "ostatus" ELSE "item")
    /\ UNCHANGED <<today, pre, seqMode, rt, hub, alloc, ws>>

\* executeOrderApproval: tx.Model(&order).Update("status", COMPLETED)
ApproveOrderStatus(w) ==
    /\ tx[w].pc = "ostatus"
    /\ LET s == View(w)
           o == s.t.approval[1].ref
       IN  /\ ~OrderLockedByOther(w, o)
           /\ Proceed(w, TxSetOrderStatus(s, o, OrderStatusCompleted), "invno")
    /\ UNCHANGED <<today, pre, seqMode, rt, hub, alloc, ws>>

\* approvalService.generateInvoiceNo: take the day's advisory lock inside
\* the transaction, count the invoices of the day, format count+1.
ApproveInvoiceNo(w) ==
    /\ tx[w].pc = "invno"
    /\ ~AdvLockedByOther(w, today)
    /\ LET s == View(w)
           count == CountByPrefix(s.db.invoices \o s.t.winv, today)
           s1 == [s EXCEPT !.t.adv = today, !.t.no = <<generateInvoiceNo(today, count)>>]
       IN  Proceed(w, s1, "invoice")
    /\ UNCHANGED <<today, pre, seqMode, rt, hub, alloc, ws>>

\* executeOrderApproval / executeExpenseApproval: tx.Create(&invoice) and the
\* CREATE_INVOICE_FROM_APPROVAL audit row whose entity is the invoice.
ApproveInvoice(w) ==
    /\ tx[w].pc = "invoice"
    /\ LET s == View(w)
           a == s.t.approval[1]
           no == s.t.no[1]
           refType == IF a.type # ApprovalReqTypeCreateOrder THEN RefTypeExpense
                      ELSE IF s.db.orders[a.ref].type = OrderTypeExport
                           THEN RefTypeOrderExport ELSE RefTypeOrderImport
           amounts == IF a.type = ApprovalReqTypeCreateExpense
                      THEN ExpenseInvoiceAmounts(s.db.expenses[a.ref])
                      ELSE NoAmounts
           id == [via |-> "approval", r |-> s.t.r, w |-> w, n |-> 0]
           invoice == [id |-> id, no |-> no, refType |-> refType, ref |-> a.ref,
                       status |-> ApprovalApproved, by |-> a.by,
                       createdDay |-> today, amounts |-> amounts,
                       via |-> "approval", note |-> "none"]
           audit == [action |-> ActionCreateInvoiceFromApproval,
                     entity |-> [kind |-> "invoice", id |-> id], user |-> w]
       IN  /\ ~InvoiceNoPendingByOther(w, no)
           /\ IF InvoiceNoTaken(s.db, no)
              THEN Rollback(w, s, "duplicate")
              ELSE Proceed(w, TxLogAudit(TxInsertInvoice(s, invoice), audit), "audit")
    /\ UNCHANGED <<today, pre, seqMode, rt, hub, alloc, ws>>

\* ApproveRequest: the APPROVE_REQUEST audit row, then fn returns nil and the
\* transaction commits.
ApproveCommit(w) ==
    /\ tx[w].pc = "audit"
    /\ tx[w].op = "approve"
    /\ LET s == View(w)
           audit == [action |-> ActionApproveRequest,
                     entity |-> [kind |-> "approval", id |-> s.t.r], user |-> w]
       IN  Finish(w, TxLogAudit(s, audit))
    /\ UNCHANGED <<today, pre, seqMode, rt, hub, alloc, ws>>

\* RejectRequest: approval.Status = REJECTED, ApprovedBy, ApprovedAt,
\* RejectionReason, then tx.Save(&approval).
RejectSave(w) ==
    /\ tx[w].pc = "save"
    /\ tx[w].op = "reject"
    /\ ~ReqLockedByOther(w, tx[w].r)
    /\ LET a == tx[w].approval[1]
           row == [a EXCEPT !.status = ApprovalRejected, !.by = w,
                            !.reason = "reason"]
           s1 == TxSaveApproval(View(w), row)
           s2 == [s1 EXCEPT !.t.approval = <<row>>]
       IN  Proceed(w, s2, IF a.type = ApprovalReqTypeCreateOrder THEN "rorder" ELSE "audit")
    /\ UNCHANGED <<today, pre, seqMode, rt, hub, alloc, ws>>

\* RejectRequest on a CREATE_ORDER request: UPDATE orders SET status = REJECTED
RejectOrder(w) ==
    /\ tx[w].pc = "rorder"
    /\ LET s == View(w)
           o == s.t.approval[1].ref
       IN  /\ ~OrderLockedByOther(w, o)
           /\ Proceed(w, TxSetOrderStatus(s, o, OrderStatusRejected), "audit")
    /\ UNCHANGED <<today, pre, seqMode, rt, hub, alloc, ws>>

\* RejectRequest: the REJECT_REQUEST audit row, then the commit.
RejectCommit(w) ==
    /\ tx[w].pc = "audit"
    /\ tx[w].op = "reject"
    /\ LET s == View(w)
           audit == [action |-> ActionRejectRequest,
                     entity |-> [kind |-> "approval", id |-> s.t.r], user |-> w]
       IN  Finish(w, TxLogAudit(s, audit))
    /\ UNCHANGED <<today, pre, seqMode, rt, hub, alloc, ws>>

\* The invoices that CreateInvoice inserted.
ManualInvoices(d) == {k \in 1..Len(d.invoices) : d.invoices[k].via = "manual"}

\* invoiceService.CreateInvoice up to generateInvoiceNo: the reference is
\* looked up, then invoiceRepo.CountByPrefix runs on the root connection:
\* no transaction is open and no advisory lock is taken.
CreateInvoiceCount(w, o) ==
    /\ MayStart(w)
    /\ Cardinality(ManualInvoices(db)) < MaxManual
    /\ o \in 1..Len(db.orders)
    /\ LET count == CountByPrefix(db.invoices, today)
       IN  tx' = [tx EXCEPT ![w] =
                    [IdleTx EXCEPT !.pc = "ci_insert", !.op = "CreateInvoice",
                                   !.ref = o,
                                   !.no = <<generateInvoiceNo(today, count)>>]]
    /\ last' = NoCall
    /\ StartCall
    /\ UNCHANGED <<db, today, seqMode, rt, hub, alloc, ws>>

\* invoiceService.CreateInvoice: invoiceRepo.Create on the root connection,
\* a single auto-committed INSERT of a PENDING invoice.
CreateInvoiceInsert(w) ==
    /\ tx[w].pc = "ci_insert"
    /\ LET t == tx[w]
           no == t.no[1]
           id == [via |-> "manual", r |-> 0, w |-> "none",
                  n |-> Cardinality(ManualInvoices(db)) + 1]
           invoice == [id |-> id, no |-> no,
                       refType |-> IF db.orders[t.ref].type = OrderTypeExport
                                   THEN RefTypeOrderExport ELSE RefTypeOrderImport,
                       ref |-> t.ref, status |-> ApprovalPending, by |-> "none",
                       createdDay |-> today, amounts |-> NoAmounts,
                       via |-> "manual", note |-> "none"]
       IN  /\ ~InvoiceNoPendingByOther(w, no)
           /\ IF InvoiceNoTaken(db, no)
              THEN /\ db' = db
                   /\ last' = Done(t.op, w, 0, "duplicate", t.pc, 0)
              ELSE /\ db' = [db EXCEPT !.invoices = Append(@, invoice)]
                   /\ last' = Done(t.op, w, 0, "ok", t.pc, 0)
    /\ tx' = [tx EXCEPT ![w] = IdleTx]
    /\ UNCHANGED <<today, pre, seqMode, rt, hub, alloc, ws>>

\* The notes UpdateInvoice may be asked to write.
Notes == {"n1"}

\* invoiceService.updateApproval (ApproveInvoice with status APPROVED,
\* RejectInvoice with status REJECTED), up to the write: the transaction
\* begins, invoiceRepo.FindByID(txCtx) is a plain SELECT that takes no lock,
\* and an invoice that is not PENDING makes fn return "already <status>".
updateApprovalFind(w, status, k) ==
    /\ MayStart(w)
    /\ k \in 1..Len(db.invoices)
    /\ LET op == IF status = ApprovalApproved THEN "ApproveInvoice" ELSE "RejectInvoice"
       IN  IF db.invoices[k].status # ApprovalPending
           THEN /\ last' = Done(op, w, k, "already_resolved", "find", 0)
                /\ tx' = tx
           ELSE /\ last' = NoCall
                /\ tx' = [tx EXCEPT ![w] =
                            [IdleTx EXCEPT !.pc = "inv_save", !.op = op, !.ref = k,
                                           !.invoice = <<[db.invoices[k] EXCEPT
                                                            !.status = status,
                                                            !.by = w]>>]]
    /\ StartCall
    /\ UNCHANGED <<db, today, seqMode, rt, hub, alloc, ws>>

\* updateApproval, the write: invoiceRepo.UpdateApproval is Save(invoice),
\* an UPDATE of every column of the row from the struct read before, with
\* approval_status, approved_by and approved_at (written together; by
\* stands for both) set by this call; then fn returns nil and the
\* transaction commits. failAt 1: the UPDATE fails; 2: the commit fails.
updateApprovalSave(w, failAt) ==
    /\ tx[w].pc = "inv_save"
    /\ db' = IF failAt = 0
             THEN [db EXCEPT !.invoices[tx[w].ref] = tx[w].invoice[1]]
             ELSE db
    /\ last' = Done(tx[w].op, w, tx[w].ref, UnitResult(failAt), "save", failAt)
    /\ tx' = [tx EXCEPT ![w] = IdleTx]
    /\ UNCHANGED <<today, pre, seqMode, rt, hub, alloc, ws>>

\* invoiceService.UpdateInvoice, up to the write: invoiceRepo.FindByID on
\* the root handle, the check that the invoice is PENDING, and the fields
\* of the request copied into the struct (the note stands for the four).
UpdateInvoiceFind(w, k, note) ==
    /\ MayStart(w)
    /\ k \in 1..Len(db.invoices)
    /\ IF db.invoices[k].status # ApprovalPending
       THEN /\ last' = Done("UpdateInvoice", w, k, "not_pending", "find", 0)
            /\ tx' = tx
       ELSE /\ last' = NoCall
            /\ tx' = [tx EXCEPT ![w] =
                        [IdleTx EXCEPT !.pc = "inv_update", !.op = "UpdateInvoice",
                                       !.ref = k,
                                       !.invoice = <<[db.invoices[k] EXCEPT
                                                        !.note = note]>>]]
    /\ StartCall
    /\ UNCHANGED <<db, today, seqMode, rt, hub, alloc, ws>>

\* UpdateInvoice, the write: invoiceRepo.Update is Save(invoice) on the
\* root handle, one auto-committed UPDATE of every column of the row from
\* the struct read before. failAt 1: the UPDATE fails.
UpdateInvoiceSave(w, failAt) ==
    /\ tx[w].pc = "inv_update"
    /\ db' = IF failAt = 0
             THEN [db EXCEPT !.invoices[tx[w].ref] = tx[w].invoice[1]]
             ELSE db
    /\ last' = Done("UpdateInvoice", w, tx[w].ref, UnitResult(failAt), "save", failAt)
    /\ tx' = [tx EXCEPT ![w] = IdleTx]
    /\ UNCHANGED <<today, pre, seqMode, rt, hub, alloc, ws>>

\* inventoryService.UpdateProduct, up to the transaction:
\* productRepo.FindByID(ctx, productID) on the root handle, a plain SELECT
\* that takes no lock and returns the whole row, current_stock included.
UpdateProductFind(w, p) ==
    /\ MayStart(w)
    /\ tx' = [tx EXCEPT ![w] =
                [IdleTx EXCEPT !.pc = "update", !.op = "UpdateProduct",
                               !.product = <<[id |-> p, stock |-> db.stock[p]]>>]]
    /\ last' = NoCall
    /\ StartCall
    /\ UNCHANGED <<db, today, seqMode, rt, hub, alloc, ws>>

\* inventoryService.UpdateProduct, the transaction: productRepo.Update is
\* Save(product), an UPDATE of every column of the row from the struct read
\* before (it waits for the row lock of an open approval), then the
\* UPDATE_PRODUCT audit row, then the commit. Statement failAt fails.
UpdateProductSave(w, failAt) ==
    /\ tx[w].pc = "update"
    /\ LET product == tx[w].product[1]
           row == [action |-> ActionUpdateProduct,
                   entity |-> [kind |-> "product", id |-> product.id], user |-> w]
       IN  /\ ~ProductLockedByOther(w, product.id)
           /\ db' = IF failAt = 0
                    THEN [db EXCEPT !.stock[product.id] = product.stock,
                                    !.audit = @ \cup {row}]
                    ELSE db
    /\ tx' = [tx EXCEPT ![w] = IdleTx]
    /\ last' = Done("UpdateProduct", w, 0, UnitResult(failAt),
                    IF failAt = 2 THEN "audit" ELSE "update", failAt)
    /\ UNCHANGED <<today, pre, seqMode, rt, hub, alloc, ws>>

\* taxService.checkOverlap: the number of other rules of the tax type with
\* effective_from <= to (9999-12-31 when to is nil) and
\* (effective_to IS NULL OR effective_to >= from); an error when it is not 0.
checkOverlap(rules, taxType, from, to, excludeID) ==
    LET upper == IF to # NoEnd THEN to ELSE FarFuture
        count == Cardinality({k \in 1..Len(rules) :
                                /\ rules[k].live
                                /\ rules[k].type = taxType
                                /\ rules[k].from <= upper
                                /\ (rules[k].to = NoEnd \/ rules[k].to >= from)
                                /\ k # excludeID})
    IN  count > 0

\* The place of a tax rule that was deleted: no query returns it.
DeletedRule == [type |-> "none", from |-> 0, to |-> 0, live |-> FALSE]

\* The audit row of a tax rule operation.
TaxAudit(action, id, u) ==
    [action |-> action, entity |-> [kind |-> "tax_rule", id |-> id], user |-> u]

\* Creations another worker has checked and not yet inserted.
PendingCreates == Cardinality({v \in Workers : tx[v].pc = "taxwrite" /\ tx[v].rule[1].id = 0})

\* taxService.CreateTaxRule (id 0) and UpdateTaxRule (id of the rule), up to
\* the write: First(&rule) for an update, then checkOverlap, all plain
\* SELECTs on the root handle with no transaction around them.
TaxCheck(w, id, req) ==
    /\ MayStart(w)
    /\ id = 0 => Len(db.rules) + PendingCreates < MaxRules
    /\ LET op == IF id = 0 THEN "CreateTaxRule" ELSE "UpdateTaxRule"
       IN  IF id # 0 /\ (id > Len(db.rules) \/ ~db.rules[IF id > Len(db.rules) THEN 1 ELSE id].live)
           THEN /\ last' = Done(op, w, id, "not_found", "find", 0)
                /\ tx' = tx
           ELSE IF checkOverlap(db.rules, req.type, req.from, req.to, id)
           THEN /\ last' = Done(op, w, id, "overlap", "check", 0)
                /\ tx' = tx
           ELSE /\ last' = NoCall
                /\ tx' = [tx EXCEPT ![w] =
                            [IdleTx EXCEPT !.pc = "taxwrite", !.op = op,
                                           !.rule = <<[id |-> id, req |-> req]>>]]
    /\ StartCall
    /\ UNCHANGED <<db, today, seqMode, rt, hub, alloc, ws>>

\* CreateTaxRule / UpdateTaxRule, the write: Create(&rule) or Save(&rule) on
\* the root handle (Save writes every column of the row with that id, and
\* inserts the row when it is gone), then writeAuditLog, whose error is
\* dropped. failAt 1: the write fails and the call returns the error;
\* failAt 2: the audit insert fails and the call returns the rule.
TaxWrite(w, u, failAt) ==
    /\ tx[w].pc = "taxwrite"
    /\ LET id == tx[w].rule[1].id
           req == tx[w].rule[1].req
           row == [type |-> req.type, from |-> req.from, to |-> req.to, live |-> TRUE]
           new == IF id = 0 THEN Len(db.rules) + 1 ELSE id
           action == IF id = 0 THEN ActionCreateTaxRule ELSE ActionUpdateTaxRule
           written == [db EXCEPT !.rules = IF id = 0 THEN Append(@, row)
                                           ELSE [@ EXCEPT ![id] = row]]
       IN  /\ db' = IF failAt = 1 THEN db
                    ELSE IF failAt = 2 THEN written
                    ELSE [written EXCEPT !.audit = @ \cup {TaxAudit(action, new, u)}]
           /\ last' = Done(tx[w].op, w, new, IF failAt = 1 THEN "failed" ELSE "ok",
                           IF failAt = 2 THEN "audit" ELSE "write", failAt)
    /\ tx' = [tx EXCEPT ![w] = IdleTx]
    /\ UNCHANGED <<today, pre, seqMode, rt, hub, alloc, ws>>

\* taxService.DeleteTaxRule: First(&rule), Delete(&rule), then writeAuditLog,
\* whose error is dropped; on the root handle with no transaction.
DeleteTaxRule(w, u, id, failAt) ==
    /\ MayStart(w)
    /\ id \in 1..Len(db.rules)
    /\ IF ~db.rules[id].live
       THEN /\ db' = db
            /\ last' = Done("DeleteTaxRule", w, id, "not_found", "find", 0)
       ELSE LET deleted == [db EXCEPT !.rules[id] = DeletedRule]
            IN  /\ db' = IF failAt = 1 THEN db
                         ELSE IF failAt = 2 THEN deleted
                         ELSE [deleted EXCEPT !.audit =
                                  @ \cup {TaxAudit(ActionDeleteTaxRule, id, u)}]
                /\ last' = Done("DeleteTaxRule", w, id,
                                IF failAt = 1 THEN "failed" ELSE "ok",
                                IF failAt = 2 THEN "audit" ELSE "write", failAt)
    /\ StartCall
    /\ UNCHANGED <<tx, today, seqMode, rt, hub, alloc, ws>>

\* inventoryService.CreateOrder of internal/service/inventory_service.go,
\* steps 3 to 7 for the first n line items: the product row is locked and
\* read, an export beyond the stock returns an error, otherwise the stock
\* is updated, the ledger row inserted and {product_id, new_stock} staged
\* in updates. Statement failAt fails; err tells whether fn has returned
\* an error.
RECURSIVE BookItems(_, _, _, _, _, _)
BookItems(d, o, type, items, n, failAt) ==
    IF n = 0 THEN [db |-> d, updates |-> <<>>, err |-> FALSE]
    ELSE LET b == BookItems(d, o, type, items, n - 1, failAt)
             item == items[n]
             stock == b.db.stock[item.product]
             modifier == IF type = OrderTypeExport THEN -1 ELSE 1
             quantityChanged == item.quantity * modifier
             stockAfter == stock + quantityChanged
             invTx == [product |-> item.product, order |-> o,
                       type |-> IF type = OrderTypeExport THEN TxTypeOut ELSE TxTypeIn,
                       quantity |-> quantityChanged, after |-> stockAfter]
         IN  IF b.err THEN b
             ELSE IF failAt = n \/ InsufficientStock(type, stock, item.quantity)
             THEN [b EXCEPT !.err = TRUE]
             ELSE [db |-> [b.db EXCEPT !.stock[item.product] = stockAfter,
                                       !.ledger = Append(@, invTx)],
                   updates |-> Append(b.updates,
                                      [product |-> item.product, newStock |-> stockAfter]),
                   err |-> FALSE]

\* The staged notifications sent whatever the transaction returned.
BroadcastAlways(updates, err) == updates

\* Step 9: `if err == nil && s.hub != nil`, one goroutine per staged update
\* that sends the payload on hub.Broadcast.
Broadcast(updates, err) == IF err THEN <<>> ELSE updates

\* The whole call: the transaction (the order inserted as COMPLETED, then
\* the line items), its commit or rollback, then the goroutines are
\* started and the call returns; hub holds the payloads of the goroutines
\* that have not handed theirs to the hub yet. failAt = Len(items) + 1 is
\* an error of the commit.
CreateOrderBooked(w, type, items, failAt) ==
    /\ seqMode => AllIdle
    /\ Len(db.orders) < MaxOrders
    /\ failAt <= Len(items) + 1
    /\ LET o == Len(db.orders) + 1
           order == [type |-> type, items |-> items, status |-> OrderStatusCompleted]
           b == BookItems([db EXCEPT !.orders = Append(@, order)], o, type, items,
                          Len(items), failAt)
           err == b.err \/ failAt = Len(items) + 1
       IN  /\ db' = IF err THEN db ELSE b.db
           /\ hub' = hub \o Broadcast(b.updates, err)
           /\ last' = Done("CreateOrder", w, o, IF err THEN "failed" ELSE "ok", "idle", failAt)
    /\ StartCall
    /\ UNCHANGED <<tx, today, seqMode, rt, alloc, ws>>

\* ServeWs: Send: make(chan []byte, 256), the buffer of a client's channel
\* (MaxBuf here).
SendBuffer == MaxBuf

\* NewHub: no client in the map. For each client the model keeps where its
\* connection is ("none": not connected yet, "open": registered and its
\* pumps running, "left": readPump has returned), the content of its Send
\* channel, how many times close(client.Send) has run and whether a send
\* on the closed channel has run.
NewHub ==
    [clients |-> {},
     phase |-> [c \in Clients |-> "none"],
     send |-> [c \in Clients |-> <<>>],
     closes |-> [c \in Clients |-> 0],
     sentClosed |-> [c \in Clients |-> FALSE]]

\* close(client.Send); a second close of a channel panics, the model counts it.
CloseSend(h, c) == [h EXCEPT !.closes[c] = IF @ < 2 THEN @ + 1 ELSE @]

\* Hub.Run, case client := <-h.register
register(h, c) == [h EXCEPT !.clients = @ \cup {c}]

\* The unregister case without the look-up in the map.
unregisterUnchecked(h, c) ==
    CloseSend([h EXCEPT !.clients = @ \ {c}], c)

\* Hub.Run, case client := <-h.unregister: only a client still in the map
\* is deleted and its channel closed.
unregister(h, c) ==
    IF c \in h.clients
    THEN CloseSend([h EXCEPT !.clients = @ \ {c}], c)
    ELSE h

\* Hub.Run, the body of the broadcast loop for one client of the map:
\* `select { case client.Send <- message: default: close; delete }`. The
\* send goes through when the buffer has room (on a closed channel it is
\* taken and panics); otherwise the client is dropped.
deliver(h, c, message) ==
    IF h.closes[c] > 0 THEN [h EXCEPT !.sentClosed[c] = TRUE]
    ELSE IF Len(h.send[c]) < SendBuffer
    THEN [h EXCEPT !.send[c] = Append(@, message)]
    ELSE CloseSend([h EXCEPT !.clients = @ \ {c}], c)

\* `for client := range h.clients`: the clients are handled one by one and
\* the handling of one does not touch another.
RECURSIVE broadcast(_, _, _)
broadcast(h, cs, message) ==
    IF cs = {} THEN h
    ELSE LET c == CHOOSE x \in cs : TRUE
         IN  broadcast(deliver(h, c, message), cs \ {c}, message)

\* ServeWs, after the upgrade: the client is made and handed to the hub on
\* the unbuffered register channel, then its two pumps are started.
ServeWs(c) ==
    /\ ws.phase[c] = "none"
    /\ ws' = [register(ws, c) EXCEPT !.phase[c] = "open"]
    /\ last' = last
    /\ UNCHANGED <<db, tx, today, pre, seqMode, rt, hub, alloc>>

\* Client.readPump: ReadMessage returns an error, the loop breaks and the
\* deferred `c.Hub.unregister <- c` hands the client to the hub, once.
ReadPumpExit(c) ==
    /\ ws.phase[c] = "open"
    /\ ws' = [unregister(ws, c) EXCEPT !.phase[c] = "left"]
    /\ last' = last
    /\ UNCHANGED <<db, tx, today, pre, seqMode, rt, hub, alloc>>

\* Client.writePump: `for message := range c.Send` takes the next message
\* of the channel, closed or not, and writes it to the connection.
WritePump(c) ==
    /\ ws.phase[c] # "none"
    /\ ws.send[c] # <<>>
    /\ ws' = [ws EXCEPT !.send[c] = Tail(@)]
    /\ last' = last
    /\ UNCHANGED <<db, tx, today, pre, seqMode, rt, hub, alloc>>

\* A goroutine that holds a stock payload blocks on `s.hub.Broadcast <- data`.
BroadcastSend(data) ==
    /\ Len(hub) < MaxPending
    /\ hub' = Append(hub, data)
    /\ last' = last
    /\ UNCHANGED <<db, tx, today, pre, seqMode, rt, alloc, ws>>

\* Hub.Run, `case message := <-h.Broadcast`: the hub takes the payload of
\* one of the waiting goroutines, in no particular order, and hands it to
\* the connected clients.
HubRun(k) ==
    /\ k \in 1..Len(hub)
    /\ hub' = SubSeq(hub, 1, k - 1) \o SubSeq(hub, k + 1, Len(hub))
    /\ ws' = broadcast(ws, ws.clients, hub[k])
    /\ last' = last
    /\ UNCHANGED <<db, tx, today, pre, seqMode, rt, alloc>>

\* Any statement of an open transaction may fail (connection loss, a
\* detected deadlock, the context's deadline): fn returns the error and
\* gorm rolls the transaction back.
Fail(w) ==
    /\ tx[w].pc # "idle"
    /\ Rollback(w, View(w), "failed")
    /\ UNCHANGED <<today, pre, seqMode, rt, hub, alloc, ws>>

\* time.Now() moves on to the next calendar day, between two requests. Days
\* are told apart only by the invoices dated on them, so the first invoice
\* is dated day 1.
Tick ==
    /\ today < MaxDay
    /\ AllIdle
    /\ db.invoices # <<>>
    /\ today' = today + 1
    /\ last' = NoCall
    /\ pre' = IF seqMode THEN db ELSE pre
    /\ UNCHANGED <<db, tx, seqMode, rt, hub, alloc, ws>>

\* ------------------------------------------------------ transaction manager
\* The state of the TransactionManager and its callers: the rows committed
\* through it (store), the RunInTx calls in progress, innermost last, each
\* with the transaction its txCtx carries under txKey and the rows written
\* in that transaction (frames), the rows written by any fn since the
\* outermost RunInTx started (unit), and the RunInTx call that has just
\* returned (done): the rows its fn wrote in its transaction, what fn returned and
\* what RunInTx returned.
NoTxCall == [writes |-> {}, err |-> "none", ret |-> "none"]

RtIdle == [store |-> {}, frames |-> <<>>, unit |-> {}, done |-> NoTxCall]

\* What a fn returns: nil or one of two error values.
FnResults == {"nil", "err1", "err2"}

Rows == 1..MaxWrites

RowsInFlight == UNION {rt.frames[k].writes : k \in 1..Len(rt.frames)}

\* GetDB(ctx, rootDB): the transaction stored in the context under txKey if
\* there is one (the context of the innermost running fn), else the root
\* connection (0).
GetDB(frames) == IF frames = <<>> THEN 0 ELSE frames[Len(frames)].key

\* t.db.WithContext(ctx).Transaction(...): t.db is the root handle, so gorm
\* begins a new transaction whatever the context carries.
Begin(frames) == Len(frames) + 1

\* A transaction function that commits whatever fn returns.
TxOutcomeCommitAlways(store, writes, err) == store \cup writes

\* gorm's Transaction: COMMIT when fn returned nil, ROLLBACK otherwise.
TxOutcome(store, writes, err) == IF err = "nil" THEN store \cup writes ELSE store

\* RunInTx up to the call of fn: begin, txCtx = WithValue(ctx, txKey, tx).
\* The caller is the program (no RunInTx in progress) or a running fn.
RunInTx ==
    /\ Len(rt.frames) < MaxDepth
    /\ rt' = [rt EXCEPT
                !.frames = Append(@, [key |-> Begin(rt.frames), writes |-> {}]),
                !.unit = IF rt.frames = <<>> THEN {} ELSE @,
                !.done = NoTxCall]
    /\ UNCHANGED <<db, tx, today, last, pre, seqMode, hub, alloc, ws>>

\* A repository call inserting row k with GetDB(ctx, r.db), made by the
\* innermost running fn with its txCtx, or by the program outside any
\* RunInTx (an auto-committed statement on the root connection).
RepoWrite(k) ==
    /\ k \notin rt.store \cup RowsInFlight
    /\ LET key == GetDB(rt.frames)
       IN  IF key = 0
           THEN rt' = [rt EXCEPT !.store = @ \cup {k}, !.done = NoTxCall]
           ELSE rt' = [rt EXCEPT !.frames[key].writes = @ \cup {k},
                                 !.unit = @ \cup {k},
                                 !.done = NoTxCall]
    /\ UNCHANGED <<db, tx, today, last, pre, seqMode, hub, alloc, ws>>

\* The innermost fn returns err: its RunInTx ends the transaction it began
\* and returns what gorm's Transaction returns, fn's error as it is.
FnReturn(err) ==
    /\ rt.frames # <<>>
    /\ LET top == Len(rt.frames)
           f == rt.frames[top]
       IN  rt' = [rt EXCEPT
                    !.store = IF f.key = top THEN TxOutcome(@, f.writes, err) ELSE @,
                    !.frames = SubSeq(@, 1, top - 1),
                    !.done = [writes |-> f.writes, err |-> err, ret |-> err]]
    /\ UNCHANGED <<db, tx, today, last, pre, seqMode, hub, alloc, ws>>

\* ----------------------------------------------------------- specification
\* No allocation under way.
NoAlloc == [count |-> 0, out |-> <<>>]

\* generateInvoiceNo for a day on which the count query returns
\* alloc.count: the string it returns.
FormatInvoiceNo ==
    /\ alloc.out = <<>>
    /\ alloc' = [alloc EXCEPT !.out = InvoiceNoString(generateInvoiceNo(today, alloc.count))]
    /\ UNCHANGED <<db, tx, today, last, pre, seqMode, rt, hub, ws>>

InitWith(mode) ==
    /\ db = EmptyDB
    /\ tx = [w \in Workers |-> IdleTx]
    /\ today = 1
    /\ last = NoCall
    /\ pre = EmptyDB
    /\ seqMode = mode
    /\ rt = RtIdle
    /\ hub = <<>>
    /\ alloc = NoAlloc
    /\ ws = NewHub

\* Requests served concurrently, each on its own worker.
Init == InitWith(FALSE)

\* Requests served one after the other.
InitSeq == InitWith(TRUE)

Next ==
    \/ \E w \in Requesters, type \in OrderTypes, items \in OneProductLists,
             failAt \in 0..4 :
          CreateOrder(w, type, items, failAt)
    \/ \E w \in Requesters, amounts \in ExpenseInputs, failAt \in 0..4 :
          CreateExpense(w, amounts, failAt)
    \/ \E w \in Workers, r \in 1..MaxReqs : ApproveFind(w, r)
    \/ \E w \in Workers, r \in 1..MaxReqs : RejectFind(w, r)
    \/ \E w \in Workers : ApproveSave(w)
    \/ \E w \in Workers : ApproveItem(w)
    \/ \E w \in Workers : ApproveOrderStatus(w)
    \/ \E w \in Workers : ApproveInvoiceNo(w)
    \/ \E w \in Workers : ApproveInvoice(w)
    \/ \E w \in Workers : ApproveCommit(w)
    \/ \E w \in Workers : RejectSave(w)
    \/ \E w \in Workers : RejectOrder(w)
    \/ \E w \in Workers : RejectCommit(w)
    \/ \E w \in Workers, o \in 1..MaxReqs : CreateInvoiceCount(w, o)
    \/ \E w \in Workers : CreateInvoiceInsert(w)
    \/ \E w \in Workers : Fail(w)
    \/ Tick

Spec == Init /\ [][Next]_vars

SpecSeq == InitSeq /\ [][Next]_vars

\* The approval workflow with requests made through CreateApprovalRequest
\* as well.
NextReq ==
    \/ \E w \in Requesters, type \in OrderTypes, items \in OneProductLists,
             failAt \in 0..4 :
          CreateOrder(w, type, items, failAt)
    \/ \E w \in Requesters, amounts \in ExpenseInputs, failAt \in 0..4 :
          CreateExpense(w, amounts, failAt)
    \/ \E w \in Requesters, type \in RequestTypeInputs,
             reference \in ReferenceInputs, failAt \in 0..2 :
          CreateApprovalRequest(w, type, reference, failAt)
    \/ \E w \in Workers, r \in 1..MaxReqs : ApproveFind(w, r)
    \/ \E w \in Workers, r \in 1..MaxReqs : RejectFind(w, r)
    \/ \E w \in Workers : ApproveSave(w)
    \/ \E w \in Workers : ApproveItem(w)
    \/ \E w \in Workers : ApproveOrderStatus(w)
    \/ \E w \in Workers : ApproveInvoiceNo(w)
    \/ \E w \in Workers : ApproveInvoice(w)
    \/ \E w \in Workers : ApproveCommit(w)
    \/ \E w \in Workers : RejectSave(w)
    \/ \E w \in Workers : RejectOrder(w)
    \/ \E w \in Workers : RejectCommit(w)

\* Requests served one after the other.
SpecReq == InitSeq /\ [][NextReq]_vars

\* Approvals of orders next to product updates.
NextProduct ==
    \/ \E w \in Requesters, type \in OrderTypes, items \in OneProductLists,
             failAt \in 0..4 :
          CreateOrder(w, type, items, failAt)
    \/ \E w \in Workers, r \in 1..MaxReqs : ApproveFind(w, r)
    \/ \E w \in Workers : ApproveSave(w)
    \/ \E w \in Workers : ApproveItem(w)
    \/ \E w \in Workers : ApproveOrderStatus(w)
    \/ \E w \in Workers : ApproveInvoiceNo(w)
    \/ \E w \in Workers : ApproveInvoice(w)
    \/ \E w \in Workers : ApproveCommit(w)
    \/ \E w \in Workers, p \in Products : UpdateProductFind(w, p)
    \/ \E w \in Workers, failAt \in 0..2 : UpdateProductSave(w, failAt)

SpecProduct == Init /\ [][NextProduct]_vars

\* The order service that books stock when the order is made, with its
\* notifications.
NextNotify ==
    \/ \E w \in Requesters, type \in OrderTypes, items \in ItemLists,
             failAt \in 0..(MaxItems + 1) :
          CreateOrderBooked(w, type, items, failAt)
    \/ \E k \in 1..(MaxOrders * MaxItems) : HubRun(k)

SpecNotify == InitSeq /\ [][NextNotify]_vars

\* Invoices made by CreateInvoice and the calls that resolve and edit them.
NextInvoice ==
    \/ \E w \in Requesters, type \in OrderTypes, items \in OneProductLists :
          CreateOrder(w, type, items, 0)
    \/ \E w \in Workers, o \in 1..MaxReqs : CreateInvoiceCount(w, o)
    \/ \E w \in Workers : CreateInvoiceInsert(w)
    \/ \E w \in Workers, status \in {ApprovalApproved, ApprovalRejected},
             k \in 1..MaxManual :
          updateApprovalFind(w, status, k)
    \/ \E w \in Workers, failAt \in 0..2 : updateApprovalSave(w, failAt)
    \/ \E w \in Workers, k \in 1..MaxManual, note \in Notes : UpdateInvoiceFind(w, k, note)
    \/ \E w \in Workers, failAt \in 0..1 : UpdateInvoiceSave(w, failAt)

SpecInvoice == Init /\ [][NextInvoice]_vars

\* The websocket hub: clients connect and leave, payloads are broadcast
\* and written out.
NextHub ==
    \/ \E c \in Clients : ServeWs(c)
    \/ \E c \in Clients : ReadPumpExit(c)
    \/ \E c \in Clients : WritePump(c)
    \/ \E p \in Products, n \in 1..MaxQty : BroadcastSend([product |-> p, newStock |-> n])
    \/ \E k \in 1..MaxPending : HubRun(k)

SpecHub == Init /\ [][NextHub]_vars

\* The tax rule operations.
NextTax ==
    \/ \E w \in Workers, id \in 0..MaxRules, req \in TaxRuleRequests :
          TaxCheck(w, id, req)
    \/ \E w \in Workers, u \in Requesters, failAt \in 0..2 : TaxWrite(w, u, failAt)
    \/ \E w \in Workers, u \in Requesters, id \in 1..MaxRules, failAt \in 0..2 :
          DeleteTaxRule(w, u, id, failAt)

\* Tax rule requests served concurrently, and one after the other.
SpecTax == Init /\ [][NextTax]_vars

SpecTaxSeq == InitSeq /\ [][NextTax]_vars

\* Concurrent approvals of orders that list two products, in either order.
NextLock ==
    \/ \E w \in Requesters, type \in OrderTypes, items \in TwoProductLists,
             failAt \in 0..4 :
          CreateOrder(w, type, items, failAt)
    \/ \E w \in Workers, r \in 1..MaxReqs : ApproveFind(w, r)
    \/ \E w \in Workers : ApproveSave(w)
    \/ \E w \in Workers : ApproveItem(w)
    \/ \E w \in Workers : ApproveOrderStatus(w)
    \/ \E w \in Workers : ApproveInvoiceNo(w)
    \/ \E w \in Workers : ApproveInvoice(w)
    \/ \E w \in Workers : ApproveCommit(w)
    \/ \E w \in Workers : Fail(w)

SpecLock == Init /\ [][NextLock]_vars

\* The transaction manager and the code that calls it.
NextTx ==
    \/ RunInTx
    \/ \E k \in Rows : RepoWrite(k)
    \/ \E err \in FnResults : FnReturn(err)

SpecTx == Init /\ [][NextTx]_vars

\* The allocator alone, on a day that already has any number of invoices
\* from 0 to MaxCount.
InitAlloc ==
    /\ db = EmptyDB
    /\ tx = [w \in Workers |-> IdleTx]
    /\ today = 1
    /\ last = NoCall
    /\ pre = EmptyDB
    /\ seqMode = TRUE
    /\ rt = RtIdle
    /\ hub = <<>>
    /\ alloc \in [count : 0..MaxCount, out : {<<>>}]
    /\ ws = NewHub

NextAlloc == FormatInvoiceNo

SpecAlloc == InitAlloc /\ [][NextAlloc]_vars

\* =================================================================== claims
\* Rows of the committed tables, as the claims speak of them.
AuditRows(action, kind, id) ==
    {a \in db.audit : a.action = action /\ a.entity = [kind |-> kind, id |-> id]}

LedgerRowsOf(d, o) == {k \in 1..Len(d.ledger) : d.ledger[k].order = o}

InvoicesOf(d, refTypes, ref) ==
    {k \in 1..Len(d.invoices) :
        d.invoices[k].via = "approval" /\ d.invoices[k].refType \in refTypes
        /\ d.invoices[k].ref = ref}

OrderRefTypes == {RefTypeOrderImport, RefTypeOrderExport}

ApprovalInvoices == {k \in 1..Len(db.invoices) : db.invoices[k].via = "approval"}

OrderRequests ==
    {r \in 1..Len(db.reqs) : db.reqs[r].type = ApprovalReqTypeCreateOrder}

\* A call has returned and none has started since: in a sequential history
\* pre is then the committed state that call started from.
LastCallDone == last.op # "none" /\ AllIdle

\* The request the last call was about existed when the call started.
LastReqKnown == last.r \in 1..Len(pre.reqs)

\* C1: of two concurrent ApproveRequest calls on one PENDING request exactly
\* one commits and the other fails as already resolved, so every request has
\* at most one committed approval, and the order it refers to has its stock
\* adjusted once (one ledger row per line item) and is invoiced once.
C1_ExactlyOnceApproval ==
    \A r \in 1..Len(db.reqs) :
        /\ Cardinality(AuditRows(ActionApproveRequest, "approval", r)) <= 1
        /\ db.reqs[r].type = ApprovalReqTypeCreateOrder =>
              /\ Cardinality(LedgerRowsOf(db, db.reqs[r].ref))
                    <= Len(db.orders[db.reqs[r].ref].items)
              /\ Cardinality(InvoicesOf(db, OrderRefTypes, db.reqs[r].ref)) <= 1

\* C2: an ApproveRequest and a RejectRequest on one request never both
\* commit: no request is REJECTED while its order has had its stock adjusted
\* or has been invoiced, and none is APPROVED while its order is REJECTED.
C2_ApproveRejectExclusive ==
    \A r \in OrderRequests :
        LET o == db.reqs[r].ref
        IN  /\ ~(/\ AuditRows(ActionApproveRequest, "approval", r) # {}
                 /\ AuditRows(ActionRejectRequest, "approval", r) # {})
            /\ db.reqs[r].status = ApprovalRejected =>
                  /\ LedgerRowsOf(db, o) = {}
                  /\ InvoicesOf(db, OrderRefTypes, o) = {}
            /\ db.reqs[r].status = ApprovalApproved =>
                  db.orders[o].status # OrderStatusRejected

\* C3: in a sequential history an ApproveRequest or RejectRequest on a
\* request that has left PENDING returns the already-resolved error and
\* leaves every committed table as it was.
C3_TerminalStates ==
    (/\ LastCallDone
     /\ last.op \in {"approve", "reject"}
     /\ LastReqKnown
     /\ pre.reqs[last.r].status # ApprovalPending)
    => (last.res = "already_resolved" /\ db = pre)

C3_Witness ==
    /\ LastCallDone
    /\ seqMode
    /\ last.op = "approve"
    /\ LastReqKnown
    /\ pre.reqs[last.r].status = ApprovalRejected
    /\ last.res = "already_resolved"

C6_AllocationsSerialized ==
    \A w, v \in Workers :
        (w # v /\ tx[w].no # <<>> /\ tx[v].no # <<>>) => tx[w].no # tx[v].no

\* C7: in a sequential history, an order approval that fails for
\* insufficient stock on a line item after the first leaves every product's
\* stock as it was before the call and no ledger row for the order.
C7_StockStepAtomic ==
    (/\ LastCallDone
     /\ last.op = "approve"
     /\ last.res = "insufficient"
     /\ last.i > 1
     /\ LastReqKnown)
    => /\ db.stock = pre.stock
       /\ db.ledger = pre.ledger
       /\ LedgerRowsOf(db, pre.reqs[last.r].ref) = {}

C7_Witness ==
    /\ LastCallDone
    /\ seqMode
    /\ last.op = "approve"
    /\ last.res = "insufficient"
    /\ last.i = 2
    /\ \E p \in Products : db.stock[p] > 0

\* An export order with a line item that asks for more than the stock of
\* its product in the committed state d.
ExceedsStock(d, o) ==
    /\ d.orders[o].type = OrderTypeExport
    /\ \E k \in 1..Len(d.orders[o].items) :
          d.orders[o].items[k].quantity > d.stock[d.orders[o].items[k].product]

AfterStatusWrite == {"item", "ostatus", "invno", "invoice", "audit"}

\* C9: in a sequential history, an ApproveRequest that fails at any
\* statement after the status write leaves the committed state exactly as
\* it was before the call, the request PENDING with no approver.
C9_NoPartialCommit ==
    (/\ LastCallDone
     /\ last.op = "approve"
     /\ last.res # "ok"
     /\ last.at \in AfterStatusWrite)
    => /\ db = pre
       /\ db.reqs[last.r].status = ApprovalPending
       /\ db.reqs[last.r].by = "none"

\* The approval of an order failed at its very last statement, after the
\* stock, the ledger, the order status and the invoice had been written.
C9_Witness ==
    /\ LastCallDone
    /\ seqMode
    /\ last.op = "approve"
    /\ last.res = "failed"
    /\ last.at = "audit"
    /\ db.reqs[last.r].type = ApprovalReqTypeCreateOrder

\* C10: in a sequential history, every APPROVED request has an
\* APPROVE_REQUEST audit row and every REJECTED request a REJECT_REQUEST
\* audit row whose entity is the request, every invoice made by an approval
\* has a CREATE_INVOICE_FROM_APPROVAL audit row whose entity is the invoice,
\* and an approval or rejection that did not commit leaves the audit log as
\* it was.
C10_AuditComplete ==
    /\ \A r \in 1..Len(db.reqs) :
          /\ db.reqs[r].status = ApprovalApproved =>
                AuditRows(ActionApproveRequest, "approval", r) # {}
          /\ db.reqs[r].status = ApprovalRejected =>
                AuditRows(ActionRejectRequest, "approval", r) # {}
    /\ \A k \in ApprovalInvoices :
          \E a \in db.audit :
             /\ a.action = ActionCreateInvoiceFromApproval
             /\ a.entity = [kind |-> "invoice", id |-> db.invoices[k].id]
    /\ (LastCallDone /\ last.op \in {"approve", "reject"} /\ last.res # "ok")
          => db.audit = pre.audit

\* One request is approved and invoiced, and the rejection of another has
\* just been rolled back after its audit row was written.
C10_Witness ==
    /\ LastCallDone
    /\ seqMode
    /\ last.op = "reject"
    /\ last.res = "failed"
    /\ last.at = "audit"
    /\ \E r \in 1..Len(db.reqs) : db.reqs[r].status = ApprovalApproved
    /\ ApprovalInvoices # {}

\* C11: an inner RunInTx joins the outer unit of work: while the outermost
\* RunInTx is in progress, and after it has returned an error, no row
\* written by any fn of that unit of work is committed.
C11_NestedTxReused ==
    (rt.frames # <<>> \/ (rt.done.err \notin {"nil", "none"}))
        => rt.store \cap rt.unit = {}

ApprovalsOf(d, o) ==
    {a \in d.audit :
        /\ a.action = ActionApproveRequest
        /\ d.reqs[a.entity.id].type = ApprovalReqTypeCreateOrder
        /\ d.reqs[a.entity.id].ref = o}

\* The sum of the signed quantities of the first n ledger rows of product p.
RECURSIVE LedgerSum(_, _, _)
LedgerSum(ledger, p, n) ==
    IF n = 0 THEN 0
    ELSE LedgerSum(ledger, p, n - 1)
            + (IF ledger[n].product = p THEN ledger[n].quantity ELSE 0)

\* C13: whatever statement of an approval's transaction fails (an expired
\* or cancelled context among the causes), every committed state shows
\* approvals as wholes: each committed approval of an order accounts for one
\* ledger row per line item and one invoice, the order has left
\* PENDING_APPROVAL, the stock is the sum of the ledger, and a request
\* committed as APPROVED has its approver's APPROVE_REQUEST audit row.
C13_NoPartialApprovalVisible ==
    /\ \A o \in 1..Len(db.orders) :
          LET n == Cardinality(ApprovalsOf(db, o))
          IN  /\ Cardinality(LedgerRowsOf(db, o)) = n * Len(db.orders[o].items)
              /\ Cardinality(InvoicesOf(db, OrderRefTypes, o)) = n
              /\ n > 0 => db.orders[o].status # OrderStatusPendingApproval
              /\ n = 0 => db.orders[o].status # OrderStatusCompleted
    /\ \A p \in Products : db.stock[p] = LedgerSum(db.ledger, p, Len(db.ledger))
    /\ \A r \in 1..Len(db.reqs) :
          db.reqs[r].status = ApprovalApproved =>
             \E a \in AuditRows(ActionApproveRequest, "approval", r) :
                a.user = db.reqs[r].by

\* An order approval has written the status, the stock, the ledger rows,
\* the order status and the invoice in its transaction and has its last
\* statement left, where the context may still expire; the committed state
\* shows the request PENDING and nothing of the approval.
C13_Witness ==
    \E w \in Workers :
        /\ tx[w].pc = "audit"
        /\ tx[w].op = "approve"
        /\ tx[w].wledger # <<>>
        /\ tx[w].winv # <<>>
        /\ db.reqs[tx[w].r].status = ApprovalPending
        /\ LedgerRowsOf(db, db.reqs[tx[w].r].ref) = {}
        /\ InvoicesOf(db, OrderRefTypes, db.reqs[tx[w].r].ref) = {}

\* The next statement of worker w waits for a lock that worker v holds.
WaitsFor(w, v) ==
    \/ /\ tx[w].pc = "save"
       /\ tx[v].wreq # <<>> /\ tx[v].r = tx[w].r
    \/ /\ tx[w].pc = "item"
       /\ db.orders[tx[w].approval[1].ref].items[tx[w].i].product
             \in DOMAIN tx[v].wstock
    \/ /\ tx[w].pc \in {"ostatus", "rorder"}
       /\ tx[v].worder # <<>> /\ tx[v].worder[1].order = tx[w].approval[1].ref
    \/ /\ tx[w].pc = "invno"
       /\ tx[v].adv = today
    \/ /\ tx[w].pc = "invoice"
       /\ \E k \in 1..Len(tx[v].winv) : tx[v].winv[k].no = tx[w].no[1]

\* C14: no two concurrent approvals wait for each other's locks.
C14_NoDeadlockCycle ==
    \A w, v \in Workers : ~(w # v /\ WaitsFor(w, v) /\ WaitsFor(v, w))

\* C15: over any sequence of CreateApprovalRequest, ApproveRequest and
\* RejectRequest calls, every order has its stock adjusted at most once (at
\* most one ledger row per line item) and is invoiced at most once.
C15_SideEffectsOncePerOrder ==
    \A o \in 1..Len(db.orders) :
        /\ Cardinality(LedgerRowsOf(db, o)) <= Len(db.orders[o].items)
        /\ Cardinality(InvoicesOf(db, OrderRefTypes, o)) <= 1

\* C16: in a sequential history, a call leaves every order that was
\* COMPLETED or REJECTED before it with the status it had, and every order
\* it creates is in PENDING_APPROVAL.
C16_OrderStatusTerminal ==
    LastCallDone =>
        /\ \A o \in 1..Len(pre.orders) :
              pre.orders[o].status \in {OrderStatusCompleted, OrderStatusRejected}
                 => db.orders[o].status = pre.orders[o].status
        /\ \A o \in (Len(pre.orders) + 1)..Len(db.orders) :
              db.orders[o].status = OrderStatusPendingApproval

\* The quantity the first i line items move of product p.
RECURSIVE QuantityUpTo(_, _, _)
QuantityUpTo(items, p, i) ==
    IF i = 0 THEN 0
    ELSE QuantityUpTo(items, p, i - 1)
         + (IF items[i].product = p THEN items[i].quantity ELSE 0)

\* The call that just returned was a successful op on a request of the type.
LastSucceeded(op, type) ==
    /\ LastCallDone
    /\ seqMode
    /\ last.op = op
    /\ last.res = "ok"
    /\ LastReqKnown
    /\ pre.reqs[last.r].type = type

\* C17: in a sequential history, a successful RejectRequest leaves the
\* request REJECTED with the reason and the rejecting user, the order of a
\* CREATE_ORDER request REJECTED, exactly one new audit row (REJECT_REQUEST
\* on the request), and stock, ledger and invoices as they were.
C17_RejectFrame ==
    \A type \in RequestTypes :
       LastSucceeded("reject", type) =>
          LET a == pre.reqs[last.r]
              row == [action |-> ActionRejectRequest,
                      entity |-> [kind |-> "approval", id |-> last.r],
                      user |-> last.w]
          IN  /\ db.reqs = [pre.reqs EXCEPT ![last.r] =
                               [@ EXCEPT !.status = ApprovalRejected,
                                         !.by = last.w, !.reason = "reason"]]
              /\ db.orders =
                    IF type = ApprovalReqTypeCreateOrder
                    THEN [pre.orders EXCEPT ![a.ref].status = OrderStatusRejected]
                    ELSE pre.orders
              /\ type = ApprovalReqTypeCreateOrder =>
                    db.orders[a.ref].status = OrderStatusRejected
              /\ row \notin pre.audit
              /\ db.audit = pre.audit \cup {row}
              /\ db.stock = pre.stock
              /\ db.ledger = pre.ledger
              /\ db.invoices = pre.invoices
              /\ db.expenses = pre.expenses

\* The request of an order has just been rejected, after another order was
\* approved, booked and invoiced.
C17_Witness ==
    /\ LastSucceeded("reject", ApprovalReqTypeCreateOrder)
    /\ db.reqs[last.r].status = ApprovalRejected
    /\ db.orders[db.reqs[last.r].ref].status = OrderStatusRejected
    /\ db.ledger # <<>>
    /\ db.invoices # <<>>

\* C18: in a sequential history, a successful approval of a CREATE_ORDER
\* request whose order has n line items leaves the order COMPLETED, appends
\* exactly n ledger rows, the i-th for the i-th item (IN with +quantity for
\* an import, OUT with -quantity for an export, stock_after the product's
\* stock right after that line), leaves each product's stock at its last
\* stock_after, and creates exactly one invoice, which refers to the order.
C18_OrderApprovalEffects ==
    LastSucceeded("approve", ApprovalReqTypeCreateOrder) =>
       LET o == pre.reqs[last.r].ref
           order == pre.orders[o]
           n == Len(order.items)
           export == order.type = OrderTypeExport
           sign == IF export THEN -1 ELSE 1
           base == Len(pre.ledger)
           inv == db.invoices[Len(db.invoices)]
       IN  /\ db.orders = [pre.orders EXCEPT ![o].status = OrderStatusCompleted]
           /\ db.orders[o].status = OrderStatusCompleted
           /\ Len(db.ledger) = base + n
           /\ SubSeq(db.ledger, 1, base) = pre.ledger
           /\ \A i \in 1..n :
                 LET item == order.items[i]
                     row == db.ledger[base + i]
                 IN  /\ row.product = item.product
                     /\ row.order = o
                     /\ row.type = (IF export THEN TxTypeOut ELSE TxTypeIn)
                     /\ row.quantity = sign * item.quantity
                     /\ row.after = pre.stock[item.product]
                                    + sign * QuantityUpTo(order.items, item.product, i)
                     /\ row.after >= 0
           /\ \A p \in Products :
                 db.stock[p] = pre.stock[p] + sign * QuantityUpTo(order.items, p, n)
           /\ Len(db.invoices) = Len(pre.invoices) + 1
           /\ SubSeq(db.invoices, 1, Len(pre.invoices)) = pre.invoices
           /\ inv.ref = o
           /\ inv.refType = (IF export THEN RefTypeOrderExport ELSE RefTypeOrderImport)
           /\ inv.via = "approval"

\* An export order of two line items has just been approved.
C18_Witness ==
    /\ LastSucceeded("approve", ApprovalReqTypeCreateOrder)
    /\ db.orders[db.reqs[last.r].ref].type = OrderTypeExport
    /\ Len(db.orders[db.reqs[last.r].ref].items) = 2
    /\ db.orders[db.reqs[last.r].ref].status = OrderStatusCompleted

\* C19: in a sequential history, a successful approval of a CREATE_EXPENSE
\* request creates exactly one invoice, for the expense, with subtotal the
\* expense's converted amount, tax its VAT amount plus its FCT amount and
\* total subtotal plus tax, and leaves stock, ledger, orders and expenses
\* as they were.
C19_ExpenseApprovalEffects ==
    LastSucceeded("approve", ApprovalReqTypeCreateExpense) =>
       LET e == pre.reqs[last.r].ref
           expense == pre.expenses[e]
           inv == db.invoices[Len(db.invoices)]
       IN  /\ Len(db.invoices) = Len(pre.invoices) + 1
           /\ SubSeq(db.invoices, 1, Len(pre.invoices)) = pre.invoices
           /\ inv.refType = RefTypeExpense
           /\ inv.ref = e
           /\ inv.amounts.subtotal = expense.converted
           /\ inv.amounts.tax = expense.vat + expense.fct
           /\ inv.amounts.total = inv.amounts.subtotal + inv.amounts.tax
           /\ db.stock = pre.stock
           /\ db.ledger = pre.ledger
           /\ db.orders = pre.orders
           /\ db.expenses = pre.expenses

\* An expense has just been approved and invoiced while an order waits for
\* its approval.
C19_Witness ==
    /\ LastSucceeded("approve", ApprovalReqTypeCreateExpense)
    /\ db.reqs[last.r].status = ApprovalApproved
    /\ db.invoices # <<>>
    /\ \E o \in 1..Len(db.orders) : db.orders[o].status = OrderStatusPendingApproval

C22_StockOnlyByLedger ==
    [][\A p \in Products :
          db'.stock[p] # db.stock[p] =>
             \E k \in (Len(db.ledger) + 1)..Len(db'.ledger) :
                /\ db'.ledger[k].product = p
                /\ db'.ledger[k].after = db'.stock[p]]_vars

\* C23: every step leaves the invoices that exist exactly as they are, and
\* a step that adds an invoice is the commit of a successful approval: a
\* request that was PENDING before the step is APPROVED after it and the
\* new invoices refer to what that request refers to.
C23_InvoicesOnlyByApproval ==
    [][/\ Len(db'.invoices) >= Len(db.invoices)
       /\ SubSeq(db'.invoices, 1, Len(db.invoices)) = db.invoices
       /\ \A k \in (Len(db.invoices) + 1)..Len(db'.invoices) :
             \E r \in 1..Len(db.reqs) :
                /\ db.reqs[r].status = ApprovalPending
                /\ db'.reqs[r].status = ApprovalApproved
                /\ db'.invoices[k].ref = db.reqs[r].ref]_vars

\* The call that just returned had the insert of its audit row fail.
AuditWriteFailed ==
    /\ LastCallDone
    /\ seqMode
    /\ last.at = "audit"
    /\ IF last.op \in {"approve", "reject"} THEN last.res = "failed" ELSE last.i > 0

\* C24: in a sequential history, a state-changing call whose audit insert
\* failed returns an error and leaves the database as it was before the
\* call.
C24_AuditFailureAborts ==
    AuditWriteFailed => (last.res # "ok" /\ db = pre)

\* C25: in a sequential history, a CreateApprovalRequest call that succeeds
\* has added exactly one request, PENDING and of one of the three request
\* types, and exactly the CREATE_APPROVAL_REQUEST audit row of that request;
\* a call that fails, among them every call whose reference_id does not
\* parse, has left the database as it was.
C25_CreateApprovalRequest ==
    (LastCallDone /\ seqMode /\ last.op = "CreateApprovalRequest") =>
       LET r == Len(pre.reqs) + 1
       IN  /\ last.res # "ok" => db = pre
           /\ last.res = "ok" =>
                 /\ Len(db.reqs) = r
                 /\ SubSeq(db.reqs, 1, r - 1) = pre.reqs
                 /\ db.reqs[r].status = ApprovalPending
                 /\ db.reqs[r].type \in RequestTypes
                 /\ db.audit = pre.audit \cup
                       {[action |-> ActionCreateApprovalRequest,
                         entity |-> [kind |-> "approval", id |-> r],
                         user |-> last.w]}
                 /\ db.audit # pre.audit
                 /\ [db EXCEPT !.reqs = pre.reqs, !.audit = pre.audit] = pre

\* The dates on which a tax rule is in effect.
EffectiveDates(rule) ==
    {d \in 1..FarFuture : rule.from <= d /\ (rule.to = NoEnd \/ d <= rule.to)}

\* C27: no two tax rules of the same tax_type are in effect on a common
\* date (a rule with no effective_to is in effect on every later date).
C27_NoOverlappingRules ==
    \A i, j \in 1..Len(db.rules) :
       (/\ i < j
        /\ db.rules[i].live
        /\ db.rules[j].live
        /\ db.rules[i].type = db.rules[j].type)
       => EffectiveDates(db.rules[i]) \cap EffectiveDates(db.rules[j]) = {}

\* C26: every stock-changed payload on its way to the hub is the product
\* and stock_after of a committed ledger row (nothing is sent for a
\* transaction that rolled back, and nothing before the commit), and there
\* are never more payloads on their way than committed ledger rows.
C26_NotifyOnlyCommitted ==
    /\ \A k \in 1..Len(hub) :
          \E j \in 1..Len(db.ledger) :
             /\ db.ledger[j].product = hub[k].product
             /\ db.ledger[j].after = hub[k].newStock
    /\ Len(hub) <= Len(db.ledger)

\* An order of two line items has been booked and the call has returned
\* while both payloads still wait for the hub.
C26_Witness ==
    /\ LastCallDone
    /\ last.op = "CreateOrder"
    /\ last.res = "ok"
    /\ Len(db.ledger) = 2
    /\ Len(hub) = 2

\* C28: every step leaves every audit row and every ledger row that exists
\* in the committed tables as it is: the audit log only gains rows and the
\* ledger only gains rows at its end.
C28_AppendOnly ==
    [][/\ db.audit \subseteq db'.audit
       /\ Len(db'.ledger) >= Len(db.ledger)
       /\ SubSeq(db'.ledger, 1, Len(db.ledger)) = db.ledger]_vars

\* Two orders have been booked by approvals, one after the other, over a
\* ledger and an audit log that already held rows.
C28_Witness ==
    /\ Len(db.ledger) >= 2
    /\ \E j, k \in 1..Len(db.ledger) : db.ledger[j].order # db.ledger[k].order
    /\ Cardinality(db.audit) >= 6

\* C29: invoice numbers increase within a day: of any two committed
\* invoices whose numbers carry the same day prefix, whether an approval or
\* CreateInvoice inserted them, the one committed later has the strictly
\* larger sequence number (db.invoices is in commit order).
C29_NumbersIncreaseWithinDay ==
    \A i, j \in 1..Len(db.invoices) :
        (i < j /\ db.invoices[i].no.day = db.invoices[j].no.day)
            => db.invoices[i].no.seq < db.invoices[j].no.seq

\* Two invoices numbered on the same day have been committed, one by an
\* approval and one by CreateInvoice.
C29_Witness ==
    \E i, j \in 1..Len(db.invoices) :
        /\ i < j
        /\ db.invoices[i].no.day = db.invoices[j].no.day
        /\ db.invoices[i].via # db.invoices[j].via

\* C30: a rolled-back approval wastes the invoice number it obtained: at
\* the step where an approval that holds number k of the day rolls back
\* (no invoice is committed), the number the allocator returns next for
\* that day on the resulting tables is greater than k.
C30_RollbackWastesNumber ==
    [][\A w \in Workers :
          (/\ tx[w].op = "approve"
           /\ tx[w].no # <<>>
           /\ tx'[w].pc = "idle"
           /\ db'.invoices = db.invoices)
          => generateInvoiceNo(tx[w].no[1].day,
                               CountByPrefix(db'.invoices, tx[w].no[1].day)).seq
                 > tx[w].no[1].seq]_vars

\* C31: the invoice number the allocator returns is the day prefix followed
\* by count+1 in exactly 5 digits, INV-YYYYMMDD-NNNNN, for every count.
C31_FiveDigitForm ==
    alloc.out # <<>> =>
        /\ Len(alloc.out) = 1 + DateWidth + 1 + SeqWidth
        /\ alloc.out[1] = "INV-"
        /\ alloc.out[DateWidth + 2] = "-"
        /\ SubSeq(alloc.out, DateWidth + 3, Len(alloc.out)) = PadZero(alloc.count + 1, SeqWidth)
        /\ \A k \in (DateWidth + 3)..Len(alloc.out) : alloc.out[k] \in 0..9

\* C37: in the websocket hub each client's Send channel is closed at most
\* once and nothing is sent on it after it is closed, whatever the order of
\* register, unregister and broadcast events.
C37_SendClosedOnce ==
    \A c \in Clients : ws.closes[c] <= 1 /\ ~ws.sentClosed[c]

\* A client was dropped by a broadcast because its buffer was full, and
\* its readPump has since unregistered it.
C37_Witness ==
    \E c \in Clients :
        /\ ws.phase[c] = "left"
        /\ ws.closes[c] = 1
        /\ Len(ws.send[c]) = SendBuffer
        /\ c \notin ws.clients

\* The order has two line items for one product.
SameProductLines(order) ==
    \E i, j \in 1..Len(order.items) :
        i < j /\ order.items[i].product = order.items[j].product

\* C32: in a sequential history, the approval of an order with several line
\* items for one product adjusts them one after the other in its one
\* transaction: an EXPORT order whose lines for a product sum to more than
\* its stock fails and leaves the stock as it was, and a successful
\* approval leaves every product's stock at its initial stock plus the sum
\* of the signed quantities of all its lines.
C32_SameProductLinesSequential ==
    (/\ LastCallDone
     /\ seqMode
     /\ last.op = "approve"
     /\ LastReqKnown
     /\ pre.reqs[last.r].status = ApprovalPending
     /\ pre.reqs[last.r].type = ApprovalReqTypeCreateOrder
     /\ SameProductLines(pre.orders[pre.reqs[last.r].ref])) =>
        LET order == pre.orders[pre.reqs[last.r].ref]
            n == Len(order.items)
            export == order.type = OrderTypeExport
            sign == IF export THEN -1 ELSE 1
        IN  /\ (export /\ \E p \in Products :
                              QuantityUpTo(order.items, p, n) > pre.stock[p]) =>
                  /\ last.res \in {"insufficient", "failed"}
                  /\ db.stock = pre.stock
                  /\ db.ledger = pre.ledger
            /\ last.res = "ok" =>
                  \A p \in Products :
                      db.stock[p] = pre.stock[p] + sign * QuantityUpTo(order.items, p, n)
            /\ last.res # "ok" => db.stock = pre.stock

\* The approval of an export order has just failed for insufficient stock
\* on its second line for a product: each line alone was within the stock,
\* the two together were not.
C32_Witness ==
    /\ LastCallDone
    /\ seqMode
    /\ last.op = "approve"
    /\ last.res = "insufficient"
    /\ last.i = 2
    /\ LastReqKnown
    /\ SameProductLines(pre.orders[pre.reqs[last.r].ref])
    /\ ~ExceedsStock(pre, pre.reqs[last.r].ref)
    /\ pre.stock["p1"] > 0
    /\ db.stock = pre.stock

\* The ledger rows of product p, as their places in the table.
LedgerRowsOfProduct(d, p) == {k \in 1..Len(d.ledger) : d.ledger[k].product = p}

\* C33: in every committed state each product's current_stock is the sum
\* of quantity_changed over its ledger rows (products start at stock 0),
\* and the stock_after of its most recently appended row is its
\* current_stock.
C33_StockIsLedgerSum ==
    \A p \in Products :
        /\ db.stock[p] = LedgerSum(db.ledger, p, Len(db.ledger))
        /\ LedgerRowsOfProduct(db, p) # {} =>
              LET latest == CHOOSE k \in LedgerRowsOfProduct(db, p) :
                               \A j \in LedgerRowsOfProduct(db, p) : j <= k
              IN  db.ledger[latest].after = db.stock[p]

\* A CREATE_ORDER request that refers to order o is committed with the status.
HasRequest(d, o, status) ==
    \E r \in 1..Len(d.reqs) :
        /\ d.reqs[r].type = ApprovalReqTypeCreateOrder
        /\ d.reqs[r].ref = o
        /\ d.reqs[r].status = status

\* C34: in every committed state an order is COMPLETED exactly when a
\* CREATE_ORDER request that refers to it is APPROVED, and REJECTED exactly
\* when such a request is REJECTED and none is APPROVED; no APPROVED
\* request has its order still in PENDING_APPROVAL.
C34_OrderStatusFollowsRequest ==
    \A o \in 1..Len(db.orders) :
        /\ db.orders[o].status = OrderStatusCompleted
              <=> HasRequest(db, o, ApprovalApproved)
        /\ db.orders[o].status = OrderStatusRejected
              <=> (HasRequest(db, o, ApprovalRejected) /\ ~HasRequest(db, o, ApprovalApproved))
        /\ ~(HasRequest(db, o, ApprovalApproved)
              /\ db.orders[o].status = OrderStatusPendingApproval)

\* C35: a manually created invoice is resolved at most once: of the
\* ApproveInvoice and RejectInvoice calls that race on one PENDING invoice
\* exactly one succeeds, so a call that commits its approval_status and
\* approved_by finds the invoice still PENDING, and what it wrote stays.
C35_InvoiceResolvedOnce ==
    [][\A w \in Workers :
          (tx[w].pc = "inv_save" /\ tx'[w].pc = "idle" /\ db' # db)
             => db.invoices[tx[w].ref].status = ApprovalPending]_vars

\* C36: UpdateInvoice never changes an invoice's approval_status or
\* approved_by and never modifies an invoice that is not PENDING, also
\* when an ApproveInvoice or RejectInvoice on the invoice commits while it
\* runs.
C36_UpdateInvoiceFrame ==
    [][\A w \in Workers :
          (tx[w].pc = "inv_update" /\ tx'[w].pc = "idle") =>
             LET old == db.invoices[tx[w].ref]
                 new == db'.invoices[tx[w].ref]
             IN  /\ new.status = old.status
                 /\ new.by = old.by
                 /\ old.status # ApprovalPending => new = old]_vars
====
